---------------------------- MODULE Spec2Model ----------------------------
(***************************************************************************)
(* A model of label-sheet: the quadrant layout engine (layout.py), the     *)
(* image geometry it rests on (processor.py), the page selector of the     *)
(* input handler (core.py), the preset resolver (config.py) and the        *)
(* generate command of the command line (cli.py).                          *)
(*                                                                         *)
(* Lengths are exact rationals <<n, d>> in lowest terms with d > 0: the    *)
(* code computes them in floating point, the model in exact arithmetic.    *)
(***************************************************************************)
EXTENDS Integers, Sequences, FiniteSets, TLC

VARIABLES
    geo,          \* one application of LayoutEngine._draw_quadrant: inputs and result
    engine,       \* the LayoutEngine object (its fields)
    call,         \* the generate_pdf call in progress: its locals and position
    disk,         \* the file system the call acts on: temp files and the output path
    seen,         \* at most one image placement of an earlier successful call
    page,         \* one application of InputHandler.load_pdf_page: inputs and result
    preset,       \* one application of a ConfigManager method: inputs and result
    cli           \* one run of the CLI's generate command: its options, locals, position

vars == <<geo, engine, call, disk, seen, page, preset, cli>>

(***************************************************************************)
(* Bounds of the model.                                                    *)
(***************************************************************************)
\* margin_inches ranges over k / InchDen inches
InchDen == 16
\* ... for k from -NegMarginK (a negative margin) ...
NegMarginK == 2
\* ... to MaxMarginK (44/16 in = 198 pt: no drawable height is left)
MaxMarginK == 44
\* image widths and heights range over 1..MaxDim pixels
MaxDim == 4
\* generate_pdf calls made on one engine
MaxCalls == 2
\* pages of a PDF
MaxPages == 4
\* characters of a page selector that is not a keyword
MaxSpecLen == 2

(***************************************************************************)
(* Exact rational arithmetic.                                              *)
(***************************************************************************)
Abs(i) == IF i < 0 THEN -i ELSE i

RECURSIVE Gcd(_, _)
Gcd(a, b) == IF b = 0 THEN a ELSE Gcd(b, a % b)

\* n/d in lowest terms, d > 0
Rat(n, d) ==
    LET g == Gcd(Abs(n), Abs(d))
        s == IF d < 0 THEN -1 ELSE 1
    IN <<s * (n \div g), s * (d \div g)>>

Num(i) == <<i, 1>>
RAdd(a, b) == Rat(a[1] * b[2] + b[1] * a[2], a[2] * b[2])
RSub(a, b) == Rat(a[1] * b[2] - b[1] * a[2], a[2] * b[2])
RMul(a, b) == Rat(a[1] * b[1], a[2] * b[2])
\* b # 0
RDiv(a, b) == Rat(a[1] * b[2], a[2] * b[1])
RLt(a, b) == a[1] * b[2] < b[1] * a[2]
RLe(a, b) == a[1] * b[2] <= b[1] * a[2]
RGt(a, b) == RLt(b, a)

(***************************************************************************)
(* processor.py: ImageProcessor.  An image is its size in pixels.          *)
(***************************************************************************)
Dims == 1..MaxDim
Images == [w : Dims, h : Dims]

\* PIL's Image.rotate(angle, expand=True): the sizes the rotated image may have.
\* A multiple of 90 degrees transposes; any other angle yields the bounding box
\* of the rotated image, here any positive size.
PilRotate(image, angle) ==
    LET a == angle % 360
    IN IF a \in {0, 180} THEN {image}
       ELSE IF a \in {90, 270} THEN {[w |-> image.h, h |-> image.w]}
       ELSE Images

\* ImageProcessor.rotate_image returning the source image whatever the rotation
rotate_image_ignored(image, rotation) == {image}

\* ImageProcessor.rotate_image: the set of possible results
rotate_image(image, rotation) ==
    IF rotation = 0 THEN {image} ELSE PilRotate(image, rotation)

\* ImageProcessor.fit_to_box, as if the comparison took the other branch
fit_to_box_swapped(image, max_width, max_height) ==
    IF max_height[1] = 0
    THEN [ok |-> FALSE, error |-> "ZeroDivisionError"]
    ELSE LET img_aspect == RDiv(Num(image.w), Num(image.h))
             box_aspect == RDiv(max_width, max_height)
         IN IF RLt(img_aspect, box_aspect)
            THEN [ok |-> TRUE, width |-> max_width,
                  height |-> RDiv(max_width, img_aspect)]
            ELSE [ok |-> TRUE, width |-> RMul(max_height, img_aspect),
                  height |-> max_height]

\* ImageProcessor.fit_to_box, scaling by the inverse aspect
fit_to_box_inverted(image, max_width, max_height) ==
    IF max_height[1] = 0
    THEN [ok |-> FALSE, error |-> "ZeroDivisionError"]
    ELSE LET img_aspect == RDiv(Num(image.w), Num(image.h))
             box_aspect == RDiv(max_width, max_height)
         IN IF RGt(img_aspect, box_aspect)
            THEN [ok |-> TRUE, width |-> max_width,
                  height |-> RMul(max_width, img_aspect)]
            ELSE [ok |-> TRUE, width |-> RDiv(max_height, img_aspect),
                  height |-> max_height]

\* ImageProcessor.fit_to_box: (new_width, new_height), or the division by zero
\* of box_aspect
fit_to_box(image, max_width, max_height) ==
    IF max_height[1] = 0
    THEN [ok |-> FALSE, error |-> "ZeroDivisionError"]
    ELSE LET img_aspect == RDiv(Num(image.w), Num(image.h))
             box_aspect == RDiv(max_width, max_height)
         IN IF RGt(img_aspect, box_aspect)
            THEN [ok |-> TRUE, width |-> max_width,
                  height |-> RDiv(max_width, img_aspect)]
            ELSE [ok |-> TRUE, width |-> RMul(max_height, img_aspect),
                  height |-> max_height]

(***************************************************************************)
(* layout.py: LayoutEngine.                                                *)
(***************************************************************************)
\* reportlab's letter page size, in points
LetterWidth == 612
LetterHeight == 792
PointsPerInch == 72

\* LayoutEngine.__init__
LayoutEngine(margin_inches, show_grid) ==
    [margin |-> RMul(margin_inches, Num(PointsPerInch)),
     show_grid |-> show_grid,
     page_width |-> Num(LetterWidth),
     page_height |-> Num(LetterHeight),
     quadrant_width |-> RDiv(Num(LetterWidth), Num(2)),
     quadrant_height |-> RDiv(Num(LetterHeight), Num(2))]

MarginInches == {Rat(k, InchDen) : k \in (0 - NegMarginK)..MaxMarginK}

\* the quadrants list of generate_pdf: (quad_x, quad_y) of q1..q4
quadrants == <<[quad_x |-> 0, quad_y |-> 1], [quad_x |-> 1, quad_y |-> 1],
               [quad_x |-> 0, quad_y |-> 0], [quad_x |-> 1, quad_y |-> 0]>>

\* the placement of _draw_quadrant without the centering
placement_uncentered(self, image, quad_x, quad_y) ==
    LET available_width == RSub(self.quadrant_width, RMul(Num(2), self.margin))
        available_height == RSub(self.quadrant_height, RMul(Num(2), self.margin))
        fit == fit_to_box(image, available_width, available_height)
    IN IF ~fit.ok THEN fit
       ELSE [ok |-> TRUE,
             x_offset |-> RAdd(RMul(Num(quad_x), self.quadrant_width), self.margin),
             y_offset |-> RAdd(RMul(Num(quad_y), self.quadrant_height), self.margin),
             width |-> fit.width,
             height |-> fit.height]

\* LayoutEngine._draw_quadrant, lines 104-123: the placement of the rotated image
placement(self, image, quad_x, quad_y) ==
    LET available_width == RSub(self.quadrant_width, RMul(Num(2), self.margin))
        available_height == RSub(self.quadrant_height, RMul(Num(2), self.margin))
        fit == fit_to_box(image, available_width, available_height)
    IN IF ~fit.ok THEN fit
       ELSE [ok |-> TRUE,
             x_offset |-> RAdd(RAdd(RMul(Num(quad_x), self.quadrant_width),
                                    self.margin),
                               RDiv(RSub(available_width, fit.width), Num(2))),
             y_offset |-> RAdd(RAdd(RMul(Num(quad_y), self.quadrant_height),
                                    self.margin),
                               RDiv(RSub(available_height, fit.height), Num(2))),
             width |-> fit.width,
             height |-> fit.height]

Rotations == {0, 90, 180, 270, -90, 45}

(***************************************************************************)
(* The state of the parts a specification leaves alone.                    *)
(***************************************************************************)
GeoIdle == [pc |-> "idle"]
\* LayoutEngine(): margin_inches = 0.25, show_grid = True
EngineIdle == LayoutEngine(Rat(1, 4), TRUE)
CallIdle == [pc |-> "idle"]
DiskIdle == [temp |-> {}, output |-> "absent"]
PageIdle == [pc |-> "idle"]
PresetIdle == [pc |-> "idle"]
CliIdle == [pc |-> "idle"]

(***************************************************************************)
(* SpecGeom: one application of _draw_quadrant's geometry for every        *)
(* margin, image, rotation and quadrant within the bounds, and one         *)
(* application of fit_to_box for every image and box within the bounds.    *)
(***************************************************************************)
\* box widths and heights range over 1..MaxBox points
MaxBox == 6

GeoInit ==
    /\ \/ geo \in [pc : {"draw_in"}, margin_inches : MarginInches, image : Images,
                    rotation : Rotations, quad : 1..4]
       \/ geo \in [pc : {"fit_in"}, image : Images,
                    max_width : 1..MaxBox, max_height : 1..MaxBox]
    /\ engine = EngineIdle
    /\ call = CallIdle
    /\ disk = DiskIdle
    /\ seen = {}
    /\ page = PageIdle
    /\ preset = PresetIdle
    /\ cli = CliIdle

\* _draw_quadrant up to the placement: rotate, fit, place
GeoDraw ==
    /\ geo.pc = "draw_in"
    /\ \E rotated \in rotate_image(geo.image, geo.rotation) :
         LET self == LayoutEngine(geo.margin_inches, TRUE)
             q == quadrants[geo.quad]
         IN geo' = [pc |-> "draw_out", self |-> self, image |-> geo.image,
                    rotation |-> geo.rotation, quad |-> geo.quad,
                    rotated |-> rotated,
                    out |-> placement(self, rotated, q.quad_x, q.quad_y)]
    /\ UNCHANGED <<engine, call, disk, seen, page, preset, cli>>

\* fit_to_box on a box of whole points
GeoFit ==
    /\ geo.pc = "fit_in"
    /\ geo' = [pc |-> "fit_out", image |-> geo.image,
               max_width |-> Num(geo.max_width), max_height |-> Num(geo.max_height),
               out |-> fit_to_box(geo.image, Num(geo.max_width),
                                  Num(geo.max_height))]
    /\ UNCHANGED <<engine, call, disk, seen, page, preset, cli>>

GeoNext == GeoDraw \/ GeoFit

SpecGeom == GeoInit /\ [][GeoNext]_vars

\* the drawable box of an engine
AvailableWidth(self) == RSub(Num(306), RMul(Num(2), self.margin))
AvailableHeight(self) == RSub(Num(396), RMul(Num(2), self.margin))

\* 0 <= m < min(quadrant_width, quadrant_height) / 2
ValidMargin(self) ==
    /\ RLe(Num(0), self.margin)
    /\ RLt(RMul(Num(2), self.margin), Num(306))
    /\ RLt(RMul(Num(2), self.margin), Num(396))

FitImage == IF geo.pc = "draw_out" THEN geo.rotated ELSE geo.image
FitMaxWidth == IF geo.pc = "draw_out" THEN AvailableWidth(geo.self) ELSE geo.max_width
FitMaxHeight ==
    IF geo.pc = "draw_out" THEN AvailableHeight(geo.self) ELSE geo.max_height
FitApplied ==
    /\ geo.pc \in {"draw_out", "fit_out"}
    /\ RLt(Num(0), FitMaxWidth)
    /\ RLt(Num(0), FitMaxHeight)

C5_AspectPreserved ==
    FitApplied =>
        /\ geo.out.ok
        /\ RMul(geo.out.width, Num(FitImage.h)) = RMul(geo.out.height, Num(FitImage.w))

\* the boundary case: a non-square image whose aspect is the box's
C5_Witness ==
    /\ geo.pc = "fit_out"
    /\ geo.image.w # geo.image.h
    /\ geo.image.w * geo.max_height[1] = geo.image.h * geo.max_width[1]
    /\ geo.out.ok
    /\ geo.out.width = geo.max_width
    /\ geo.out.height = geo.max_height

\* C11: no engine exists whose margin is negative or leaves no positive
\* drawable width or height (its construction fails with InvalidConfiguration),
\* so _draw_quadrant never computes a non-positive available_width or
\* available_height and never places an image of non-positive width or height.
C11_InvalidMarginRejected ==
    geo.pc = "draw_out" =>
        /\ RLe(Num(0), geo.self.margin)
        /\ RLt(Num(0), AvailableWidth(geo.self))
        /\ RLt(Num(0), AvailableHeight(geo.self))
        /\ geo.out.ok
        /\ RLt(Num(0), geo.out.width)
        /\ RLt(Num(0), geo.out.height)

\* C14: the fit and the placement use the rotated image's dimensions: for a
\* W x H source, rotation 0 or 180 gives W x H and draw_width * H =
\* draw_height * W; rotation 90 or -90 gives H x W and draw_width * W =
\* draw_height * H.
C14_RotatedDimensionsUsed ==
    (geo.pc = "draw_out" /\ geo.rotation \in {0, 90, -90, 180} /\ geo.out.ok) =>
        LET W == geo.image.w
            H == geo.image.h
        IN IF geo.rotation \in {0, 180}
           THEN /\ geo.rotated = [w |-> W, h |-> H]
                /\ RMul(geo.out.width, Num(H)) = RMul(geo.out.height, Num(W))
           ELSE /\ geo.rotated = [w |-> H, h |-> W]
                /\ RMul(geo.out.width, Num(W)) = RMul(geo.out.height, Num(H))

\* a non-square image rotated by -90 and placed under a valid margin
C14_Witness ==
    /\ geo.pc = "draw_out"
    /\ ValidMargin(geo.self)
    /\ geo.rotation = -90
    /\ geo.image.w # geo.image.h
    /\ geo.out.ok
    /\ RLt(Num(0), geo.out.width)
    /\ RMul(geo.out.width, Num(geo.image.w)) = RMul(geo.out.height, Num(geo.image.h))

(***************************************************************************)
(* SpecRender: generate_pdf calls on one engine, statement by statement.   *)
(* Any library call that touches a file may raise; an exception leaves     *)
(* generate_pdf at once, since it has no try around its body.              *)
(***************************************************************************)
\* a quadrant argument that is None, and an image that is None
NoConfig == [none |-> TRUE]
NoImage == [w |-> 0, h |-> 0]
QuadrantConfig(image, rotation) == [none |-> FALSE, image |-> image, rotation |-> rotation]

QuadrantConfigs ==
    {NoConfig,
     QuadrantConfig(NoImage, 0),
     QuadrantConfig([w |-> 4, h |-> 3], 0),
     QuadrantConfig([w |-> 2, h |-> 3], -90)}

\* `if config and config.image`, line 70
Present(config) == ~config.none /\ config.image # NoImage

\* the engines of SpecRender: the default margin (0.25 in) and one that leaves
\* no drawable height (2.75 in = 198 pt), with and without the grid
RenderMarginInches == {Rat(1, 4), Rat(11, 4)}

\* the slot of the i-th argument, were images packed into the first free slots
packed_slot(i) == quadrants[Len(call.temp_files) + 1]

\* `for config, quad_x, quad_y in quadrants`: the slot of the i-th argument
quadrant_slot(i) == quadrants[i]

\* _draw_grid with the lines at the quadrant's size instead of the page's middle
_draw_grid_off_centre(self) ==
    <<[op |-> "line", x1 |-> self.quadrant_width, y1 |-> Num(0),
       x2 |-> self.quadrant_width, y2 |-> self.quadrant_height],
      [op |-> "line", x1 |-> Num(0), y1 |-> self.quadrant_height,
       x2 |-> self.quadrant_width, y2 |-> self.quadrant_height]>>

\* _draw_grid: the two lines it draws
_draw_grid(self) ==
    <<[op |-> "line", x1 |-> RDiv(self.page_width, Num(2)), y1 |-> Num(0),
       x2 |-> RDiv(self.page_width, Num(2)), y2 |-> self.page_height],
      [op |-> "line", x1 |-> Num(0), y1 |-> RDiv(self.page_height, Num(2)),
       x2 |-> self.page_width, y2 |-> RDiv(self.page_height, Num(2))]>>

RenderInit ==
    /\ geo = GeoIdle
    /\ \E margin_inches \in RenderMarginInches, show_grid \in BOOLEAN :
         engine = LayoutEngine(margin_inches, show_grid)
    /\ call = [pc |-> "idle", n |-> 0]
    /\ disk = DiskIdle
    /\ seen = {}
    /\ page = PageIdle
    /\ preset = PresetIdle
    /\ cli = CliIdle

\* generate_pdf is entered: the canvas is made (no file is opened yet) and
\* temp_files is empty.  disk shows what the call does to the file system.
Call ==
    /\ call.pc = "idle"
    /\ call.n < MaxCalls
    /\ \E q \in [1..4 -> QuadrantConfigs] :
         call' = [pc |-> "loop", n |-> call.n + 1, q |-> q, i |-> 1,
                  temp_files |-> <<>>, ops |-> <<>>, created |-> {},
                  attempted |-> {}, j |-> 1]
    /\ UNCHANGED <<geo, engine, disk, seen, page, preset, cli>>

\* the loop refusing an absent quadrant instead of passing over it
SkipQuadrant_refused ==
    /\ call.pc = "loop"
    /\ call.i <= 4
    /\ ~Present(call.q[call.i])
    /\ call' = [call EXCEPT !.pc = "raised"]
    /\ UNCHANGED <<geo, engine, disk, seen, page, preset, cli>>

\* the loop passes over an absent quadrant
SkipQuadrant ==
    /\ call.pc = "loop"
    /\ call.i <= 4
    /\ ~Present(call.q[call.i])
    /\ call' = [call EXCEPT !.i = @ + 1]
    /\ UNCHANGED <<geo, engine, disk, seen, page, preset, cli>>

\* _draw_quadrant returns: the image is rotated, fitted, placed, saved to a new
\* temp file and drawn from it; generate_pdf appends the file to temp_files
DrawQuadrant ==
    /\ call.pc = "loop"
    /\ call.i <= 4
    /\ Present(call.q[call.i])
    /\ \E image \in rotate_image(call.q[call.i].image, call.q[call.i].rotation) :
         LET slot == quadrant_slot(call.i)
             at == placement(engine, image, slot.quad_x, slot.quad_y)
             temp_file == call.i
         IN /\ at.ok
            /\ call' = [call EXCEPT
                 !.i = @ + 1,
                 !.temp_files = Append(@, temp_file),
                 !.created = @ \cup {temp_file},
                 !.ops = Append(@, [op |-> "drawImage", file |-> temp_file,
                                    quadrant |-> call.i,
                                    before |-> Len(call.temp_files),
                                    image |-> call.q[call.i].image,
                                    rotation |-> call.q[call.i].rotation,
                                    x |-> at.x_offset, y |-> at.y_offset,
                                    width |-> at.width, height |-> at.height])]
            /\ disk' = [disk EXCEPT !.temp = @ \cup {temp_file}]
    /\ UNCHANGED <<geo, engine, seen, page, preset, cli>>

\* _draw_quadrant raises: in fit_to_box (no drawable height) or in
\* NamedTemporaryFile, and no file is made; or in image.save or drawImage, and
\* the temp file is on disk, its name lost with the frame
DrawQuadrantRaises ==
    /\ call.pc = "loop"
    /\ call.i <= 4
    /\ Present(call.q[call.i])
    /\ \E image \in rotate_image(call.q[call.i].image, call.q[call.i].rotation) :
         LET slot == quadrant_slot(call.i)
             at == placement(engine, image, slot.quad_x, slot.quad_y)
             temp_file == call.i
         IN \/ /\ call' = [call EXCEPT !.pc = "raised"]
               /\ disk' = disk
            \/ /\ at.ok
               /\ call' = [call EXCEPT !.pc = "raised", !.created = @ \cup {temp_file}]
               /\ disk' = [disk EXCEPT !.temp = @ \cup {temp_file}]
    /\ UNCHANGED <<geo, engine, seen, page, preset, cli>>

\* the loop is over and show_grid is set: _draw_grid draws its two lines
DrawGrid ==
    /\ call.pc = "loop"
    /\ call.i = 5
    /\ engine.show_grid
    /\ call' = [call EXCEPT !.pc = "save", !.ops = @ \o _draw_grid(engine)]
    /\ UNCHANGED <<geo, engine, disk, seen, page, preset, cli>>

\* the loop is over and show_grid is not set
SkipGrid ==
    /\ call.pc = "loop"
    /\ call.i = 5
    /\ ~engine.show_grid
    /\ call' = [call EXCEPT !.pc = "save"]
    /\ UNCHANGED <<geo, engine, disk, seen, page, preset, cli>>

\* c.save() writes the page to output_path
Save ==
    /\ call.pc = "save"
    /\ call' = [call EXCEPT !.pc = "cleanup", !.ops = Append(@, [op |-> "save"])]
    /\ disk' = [disk EXCEPT !.output = "complete"]
    /\ UNCHANGED <<geo, engine, seen, page, preset, cli>>

\* c.save() raises: output_path could not be opened (no file), or it was opened
\* and the write of the document failed (an empty or truncated file is left)
SaveRaises ==
    /\ call.pc = "save"
    /\ call' = [call EXCEPT !.pc = "raised"]
    /\ \E left \in {"absent", "partial"} : disk' = [disk EXCEPT !.output = left]
    /\ UNCHANGED <<geo, engine, seen, page, preset, cli>>

\* one pass of the clean-up loop: os.remove(temp_file), its failure ignored
Remove ==
    /\ call.pc = "cleanup"
    /\ call.j <= Len(call.temp_files)
    /\ LET temp_file == call.temp_files[call.j]
       IN /\ call' = [call EXCEPT !.j = @ + 1, !.attempted = @ \cup {temp_file}]
          /\ \/ disk' = [disk EXCEPT !.temp = @ \ {temp_file}]
             \/ disk' = disk
    /\ UNCHANGED <<geo, engine, seen, page, preset, cli>>

\* generate_pdf returns; one of the placements it made may be remembered
Return ==
    /\ call.pc = "cleanup"
    /\ call.j > Len(call.temp_files)
    /\ call' = [call EXCEPT !.pc = "returned"]
    /\ \/ seen' = seen
       \/ \E k \in 1..Len(call.ops) :
            /\ call.ops[k].op = "drawImage"
            /\ seen' = {call.ops[k]}
    /\ UNCHANGED <<geo, engine, disk, page, preset, cli>>

\* the call is over: its frame, and what it did to the disk, are let go
Exit ==
    /\ call.pc \in {"returned", "raised"}
    /\ call' = [pc |-> "idle", n |-> call.n]
    /\ disk' = DiskIdle
    /\ UNCHANGED <<geo, engine, seen, page, preset, cli>>

RenderNext ==
    \/ Call
    \/ Exit
    \/ SkipQuadrant
    \/ DrawQuadrant
    \/ DrawQuadrantRaises
    \/ DrawGrid
    \/ SkipGrid
    \/ Save
    \/ SaveRaises
    \/ Remove
    \/ Return

SpecRender == RenderInit /\ [][RenderNext]_vars

Exited == call.pc \in {"returned", "raised"}

\* C1: when generate_pdf exits, by return or by exception, the removal of every
\* temporary file it created has been attempted.
C1_TempFilesRemovedOnEveryExit ==
    Exited => call.created \subseteq call.attempted

\* C2: when generate_pdf exits by exception it has left no file, whole or
\* partial, at output_path.
C2_NoOutputOnFailure ==
    call.pc = "raised" => disk.output = "absent"

\* the draw operations and the save of a call, without the placement
Issued(op) ==
    IF op.op = "drawImage" THEN <<"image", op.quadrant>>
    ELSE IF op.op = "line" THEN <<"line", op.x1, op.y1, op.x2, op.y2>>
    ELSE <<"save">>

IssuedOps == [k \in 1..Len(call.ops) |-> Issued(call.ops[k])]

\* one image per present quadrant in the order Q1..Q4, then the two grid lines
\* if show_grid is set, then the save
ExpectedOps ==
    LET images == SelectSeq(<<1, 2, 3, 4>>, LAMBDA k : Present(call.q[k]))
        grid == IF engine.show_grid
                THEN <<<<"line", Num(306), Num(0), Num(306), Num(792)>>,
                       <<"line", Num(0), Num(396), Num(612), Num(396)>>>>
                ELSE <<>>
    IN [k \in 1..Len(images) |-> <<"image", images[k]>>] \o grid \o <<<<"save">>>>

IsPrefix(s, t) == Len(s) <= Len(t) /\ SubSeq(t, 1, Len(s)) = s

\* C6: the operations a call issues on the canvas are, in this order, one image
\* per present quadrant (Q1, Q2, Q3, Q4), the two grid lines if and only if
\* show_grid is set, and the save: at every moment a prefix of that sequence,
\* and the whole of it once the save is done.
C6_DrawOrder ==
    call.pc # "idle" =>
        /\ IsPrefix(IssuedOps, ExpectedOps)
        /\ call.pc \in {"cleanup", "returned"} => IssuedOps = ExpectedOps

\* a returned call with the grid on that skipped Q1 and Q3 and drew Q2 and Q4
C6_Witness ==
    /\ call.pc = "returned"
    /\ engine.show_grid
    /\ ~Present(call.q[1]) /\ Present(call.q[2])
    /\ ~Present(call.q[3]) /\ Present(call.q[4])
    /\ Len(call.ops) = 5

SamePlacement(a, b) ==
    a.x = b.x /\ a.y = b.y /\ a.width = b.width /\ a.height = b.height

\* C7: the placement of a quadrant's image in a successful call is the one any
\* earlier successful call on the same engine made for the same quadrant, image
\* and rotation, whatever the other quadrants held.
C7_QuadrantsIndependent ==
    call.pc = "returned" =>
        \A s \in seen : \A k \in 1..Len(call.ops) :
            LET op == call.ops[k]
            IN (/\ op.op = "drawImage"
                /\ op.quadrant = s.quadrant
                /\ op.image = s.image
                /\ op.rotation = s.rotation) => SamePlacement(op, s)

\* Q3 drawn alone in one call and after two other images in the next
C7_Witness ==
    /\ call.pc = "returned"
    /\ call.n = 2
    /\ \E s \in seen : \E k \in 1..Len(call.ops) :
         /\ s.quadrant = 3
         /\ s.before = 0
         /\ call.ops[k].op = "drawImage"
         /\ call.ops[k].quadrant = 3
         /\ call.ops[k].image = s.image
         /\ call.ops[k].rotation = s.rotation
         /\ call.ops[k].before = 2

\* a call in progress or over whose four quadrants are absent: None, or a
\* QuadrantConfig whose image is None
AllAbsent == call.pc # "idle" /\ \A k \in 1..4 : ~Present(call.q[k])

\* C12: a call with all four quadrants absent draws no image and creates no
\* temporary file, passes the whole loop, draws the grid if and only if
\* show_grid is set and saves the page, after which it returns with the output
\* written.  It raises nowhere but in c.save() itself, when the output file
\* cannot be written.
C12_BlankPageSucceeds ==
    AllAbsent =>
        /\ call.created = {} /\ call.temp_files = <<>> /\ disk.temp = {}
        /\ \A k \in 1..Len(call.ops) : call.ops[k].op # "drawImage"
        /\ IsPrefix(IssuedOps, ExpectedOps)
        /\ call.pc \in {"cleanup", "returned"} =>
               /\ IssuedOps = ExpectedOps
               /\ Len(call.ops) = (IF engine.show_grid THEN 3 ELSE 1)
               /\ disk.output = "complete"
        /\ call.pc = "raised" =>
               /\ call.i = 5
               /\ IssuedOps \o <<<<"save">>>> = ExpectedOps

\* a returned call with the grid on, given None for two quadrants and a
\* QuadrantConfig without image for the other two
C12_Witness ==
    /\ AllAbsent
    /\ call.pc = "returned"
    /\ engine.show_grid
    /\ call.q[1] = NoConfig /\ call.q[2] = QuadrantConfig(NoImage, 0)
    /\ call.q[3] = NoConfig /\ call.q[4] = QuadrantConfig(NoImage, 0)
    /\ Len(call.ops) = 3
    /\ disk.output = "complete"

(***************************************************************************)
(* core.py: InputHandler.load_pdf_page.  A page selector is a string, here *)
(* a sequence of characters; the PDF is its page count.                    *)
(***************************************************************************)
LAST == <<"l", "a", "s", "t">>
SECOND_LAST == <<"s", "e", "c", "o", "n", "d", "-", "l", "a", "s", "t">>

Digits == {"0", "1", "2", "3", "4", "5", "6", "7", "8", "9"}
Alphabet == Digits \cup {"-", "+", " ", "x"}

DigitValue(c) ==
    CASE c = "0" -> 0 [] c = "1" -> 1 [] c = "2" -> 2 [] c = "3" -> 3
      [] c = "4" -> 4 [] c = "5" -> 5 [] c = "6" -> 6 [] c = "7" -> 7
      [] c = "8" -> 8 [] c = "9" -> 9

RECURSIVE StripLeft(_)
StripLeft(s) == IF s # <<>> /\ Head(s) = " " THEN StripLeft(Tail(s)) ELSE s

RECURSIVE StripRight(_)
StripRight(s) ==
    IF s # <<>> /\ s[Len(s)] = " " THEN StripRight(SubSeq(s, 1, Len(s) - 1)) ELSE s

RECURSIVE Decimal(_)
Decimal(s) ==
    IF s = <<>> THEN 0 ELSE 10 * Decimal(SubSeq(s, 1, Len(s) - 1)) + DigitValue(s[Len(s)])

\* Python's int(s) on a string of the alphabet: white space is stripped, then
\* an optional sign and one or more digits; anything else is a ValueError
int(s) ==
    LET t == StripRight(StripLeft(s))
        signed == t # <<>> /\ Head(t) \in {"-", "+"}
        digits == IF signed THEN Tail(t) ELSE t
    IN IF digits = <<>> \/ \E k \in 1..Len(digits) : digits[k] \notin Digits
       THEN [ok |-> FALSE, error |-> "ValueError"]
       ELSE [ok |-> TRUE,
             value |-> IF signed /\ Head(t) = "-" THEN 0 - Decimal(digits)
                       ELSE Decimal(digits)]

Returned(page_index) == [kind |-> "page", index |-> page_index]
Raised(type, message) == [kind |-> "error", type |-> type, message |-> message]

\* page_index of a page number, were the number taken as the index
page_index_unshifted(page_num, count) ==
    IF page_num >= 0 THEN page_num ELSE count + page_num

\* page_index of a page number, were -1 the page before the final one
page_index_from_end(page_num, count) ==
    IF page_num = 0 THEN 0
    ELSE IF page_num > 0 THEN page_num - 1
    ELSE count + page_num - 1

\* lines 50-55: page_index of a page number
page_index_of(page_num, count) ==
    IF page_num = 0 THEN 0
    ELSE IF page_num > 0 THEN page_num - 1
    ELSE count + page_num

\* the body of the try statement, lines 49-60
TryPageNumber(page_spec, count) ==
    LET parsed == int(page_spec)
    IN IF ~parsed.ok THEN Raised("ValueError", "invalid literal for int()")
       ELSE LET page_index == page_index_of(parsed.value, count)
            IN IF page_index < 0 \/ page_index >= count
               THEN Raised("ValueError", "Page number out of range")
               ELSE Returned(page_index)

\* InputHandler.load_pdf_page on a path that exists or not, to a PDF of `count`
\* pages: the 0-based index into images of the page returned, or the exception
load_pdf_page(exists, count, page_spec) ==
    IF ~exists THEN Raised("FileNotFoundError", "PDF file not found")
    ELSE IF count = 0 THEN Raised("ValueError", "PDF has no pages")
    ELSE IF page_spec = LAST THEN Returned(count - 1)
    ELSE IF page_spec = SECOND_LAST
         THEN IF count < 2
              THEN Raised("ValueError", "PDF doesn't have a second-last page")
              ELSE Returned(count - 2)
    ELSE LET body == TryPageNumber(page_spec, count)
         IN IF body.kind = "error" /\ body.type = "ValueError"
            THEN Raised("ValueError", "Invalid page specification")
            ELSE body

RECURSIVE Strings(_)
Strings(n) ==
    IF n = 0 THEN {<<>>}
    ELSE LET shorter == Strings(n - 1)
         IN shorter \cup {Append(s, c) : s \in shorter, c \in Alphabet}

PageSpecs == {LAST, SECOND_LAST} \cup Strings(MaxSpecLen)

PageInit ==
    /\ geo = GeoIdle
    /\ engine = EngineIdle
    /\ call = CallIdle
    /\ disk = DiskIdle
    /\ seen = {}
    /\ page \in [pc : {"in"}, exists : BOOLEAN, count : 0..MaxPages,
                 page_spec : PageSpecs]
    /\ preset = PresetIdle
    /\ cli = CliIdle

LoadPdfPage ==
    /\ page.pc = "in"
    /\ page' = [pc |-> "out", exists |-> page.exists, count |-> page.count,
                page_spec |-> page.page_spec,
                result |-> load_pdf_page(page.exists, page.count, page.page_spec)]
    /\ UNCHANGED <<geo, engine, call, disk, seen, preset, cli>>

PageNext == LoadPdfPage

SpecPage == PageInit /\ [][PageNext]_vars

\* load_pdf_page was applied to an existing PDF of n >= 1 pages
PageLoaded == page.pc = "out" /\ page.exists /\ page.count >= 1

\* the selector is a number (not a keyword)
Numeric == page.page_spec \notin {LAST, SECOND_LAST} /\ int(page.page_spec).ok
N == int(page.page_spec).value

\* C8: on a PDF of n >= 1 pages load_pdf_page returns the final page for
\* "last", the one before it for "second-last" (failing when n < 2), the first
\* page for 0 or 1, the N-th page for 0 < N <= n and the page at 0-based position
\* n + N for N < 0 with n + N >= 0; it returns no page in any other case.
C8_PageSelected ==
    PageLoaded =>
        LET n == page.count
            result == page.result
        IN /\ page.page_spec = LAST => result = Returned(n - 1)
           /\ page.page_spec = SECOND_LAST =>
                IF n < 2 THEN result.kind = "error" ELSE result = Returned(n - 2)
           /\ (Numeric /\ N \in {0, 1}) => result = Returned(0)
           /\ (Numeric /\ N > 0 /\ N <= n) => result = Returned(N - 1)
           /\ (Numeric /\ N < 0 /\ n + N >= 0) => result = Returned(n + N)
           /\ result.kind = "page" =>
                \/ page.page_spec \in {LAST, SECOND_LAST}
                \/ Numeric /\ N >= 0 /\ N <= n
                \/ Numeric /\ N < 0 /\ n + N >= 0

\* "-2" on three pages returns the second page
C8_Witness ==
    /\ PageLoaded
    /\ page.count = 3
    /\ page.page_spec = <<"-", "2">>
    /\ page.result = Returned(1)

\* C9: a number out of range (N > n, or N < 0 with n + N < 0) makes
\* load_pdf_page fail with the range error, not with the error of a selector
\* that is no number.
C9_RangeErrorReachesCaller ==
    (PageLoaded /\ Numeric /\ (N > page.count \/ (N < 0 /\ page.count + N < 0))) =>
        /\ page.result.kind = "error"
        /\ page.result.message = "Page number out of range"

\* two outcomes of load_pdf_page agree: the same page, or two failures
SameOutcome(a, b) ==
    \/ a.kind = "page" /\ b.kind = "page" /\ a.index = b.index
    \/ a.kind = "error" /\ b.kind = "error"

\* C15: on a PDF of n >= 1 pages the selector "-1" has the outcome of "last"
\* (the final page) and "-2" the outcome of "second-last" (the page before the
\* final one, and a failure when n = 1).
C15_NegativeMatchesKeyword ==
    PageLoaded =>
        LET n == page.count
        IN /\ page.page_spec = <<"-", "1">> =>
                /\ SameOutcome(page.result, load_pdf_page(TRUE, n, LAST))
                /\ page.result = Returned(n - 1)
           /\ page.page_spec = <<"-", "2">> =>
                /\ SameOutcome(page.result, load_pdf_page(TRUE, n, SECOND_LAST))
                /\ IF n = 1 THEN page.result.kind = "error"
                   ELSE page.result = Returned(n - 2)

\* "-2" on a one-page PDF fails, as "second-last" does
C15_Witness ==
    /\ PageLoaded
    /\ page.count = 1
    /\ page.page_spec = <<"-", "2">>
    /\ page.result.kind = "error"
    /\ load_pdf_page(TRUE, 1, SECOND_LAST).kind = "error"

(***************************************************************************)
(* config.py: ConfigManager.  A dict is a function on its keys; a dict     *)
(* iterated in order (a preset's quadrants) is the sequence of its items.  *)
(***************************************************************************)
EmptyDict == [k \in {} |-> k]

\* a key of a preset's quadrants: an int for a built-in preset, an int or a
\* string, as the YAML has it, for a user preset
IntKey(n) == [str |-> FALSE, n |-> n, chars |-> <<>>]
StrKey(chars) == [str |-> TRUE, n |-> 0, chars |-> chars]

\* int(quad_num), line 165
int_of_key(key) == IF key.str THEN int(key.chars).value ELSE key.n

INPUT == "{input}"

BUILTIN_PRESETS ==
    ("standard" :>
        [description |-> "UPS label (Q1,Q2) + notes (Q3 rotated -90)",
         quadrants |->
            <<<<IntKey(1), [source |-> INPUT, page |-> LAST, rotation |-> 0]>>,
              <<IntKey(2), [source |-> INPUT, page |-> LAST, rotation |-> 0]>>,
              <<IntKey(3), [source |-> INPUT, page |-> SECOND_LAST,
                            rotation |-> -90]>>>>])
    @@ ("label-only-q1-q2" :>
        [description |-> "Just the shipping label in Q1 and Q2",
         quadrants |->
            <<<<IntKey(1), [source |-> INPUT, page |-> LAST, rotation |-> 0]>>,
              <<IntKey(2), [source |-> INPUT, page |-> LAST, rotation |-> 0]>>>>])
    @@ ("notes-q4" :>
        [description |-> "Notes in bottom-right quadrant",
         quadrants |->
            <<<<IntKey(4), [source |-> INPUT, page |-> SECOND_LAST,
                            rotation |-> 0]>>>>])
    @@ ("notes-q3" :>
        [description |-> "Notes in bottom-left quadrant, rotated -90",
         quadrants |->
            <<<<IntKey(3), [source |-> INPUT, page |-> SECOND_LAST,
                            rotation |-> -90]>>>>])

\* dict.get(key, default)
Get(dict, key, default) == IF key \in DOMAIN dict THEN dict[key] ELSE default

\* an Optional value
Nothing == [none |-> TRUE]
Some(value) == [none |-> FALSE, value |-> value]

\* ConfigManager.get_preset, were the built-in presets looked up first
get_preset_builtin_first(user_presets, name) ==
    IF name \in DOMAIN BUILTIN_PRESETS THEN Some(BUILTIN_PRESETS[name])
    ELSE IF name \in DOMAIN user_presets THEN Some(user_presets[name])
    ELSE Nothing

\* ConfigManager.get_preset
get_preset(user_presets, name) ==
    IF name \in DOMAIN user_presets THEN Some(user_presets[name])
    ELSE IF name \in DOMAIN BUILTIN_PRESETS THEN Some(BUILTIN_PRESETS[name])
    ELSE Nothing

\* the truth value of an Optional dict: None and {} are false
Truthy(optional) == ~optional.none /\ DOMAIN optional.value # {}

\* `quad_num in overrides` of a truthy overrides
InOverrides(overrides, quad_num) ==
    Truthy(overrides) /\ quad_num \in DOMAIN overrides.value

\* result.update(overrides)
Update(result, overrides) ==
    [k \in DOMAIN result \cup DOMAIN overrides |->
        IF k \in DOMAIN overrides THEN overrides[k] ELSE result[k]]

\* ConfigManager.list_presets: the built-in descriptions, then the user's over them
list_presets(user_presets) ==
    LET builtin == [name \in DOMAIN BUILTIN_PRESETS |->
                       Get(BUILTIN_PRESETS[name], "description", "")]
        user == [name \in DOMAIN user_presets |->
                    Get(user_presets[name], "description", "Custom preset")]
    IN Update(builtin, user)

\* lines 171-180: the entry resolve_preset makes of a preset's
resolved_entry(config, input_file) ==
    [source |-> IF config.source = INPUT THEN input_file ELSE config.source,
     page |-> Get(config, "page", LAST),
     rotation |-> Get(config, "rotation", 0)]

\* lines 164-180: the loop over the first k items of the preset's quadrants
RECURSIVE process_quadrants(_, _, _, _)
process_quadrants(items, k, input_file, overrides) ==
    IF k = 0 THEN EmptyDict
    ELSE LET result == process_quadrants(items, k - 1, input_file, overrides)
             quad_num == int_of_key(items[k][1])
             config == items[k][2]
         IN IF InOverrides(overrides, quad_num) THEN result
            ELSE Update(result, quad_num :> resolved_entry(config, input_file))

Mapping(value) == [kind |-> "mapping", value |-> value]

\* ConfigManager.resolve_preset
resolve_preset(user_presets, preset_name, input_file, overrides) ==
    LET found == get_preset(user_presets, preset_name)
    IN IF ~Truthy(found) THEN Raised("ValueError", "Preset not found")
       ELSE LET items == Get(found.value, "quadrants", <<>>)
                result == process_quadrants(items, Len(items), input_file, overrides)
            IN Mapping(IF Truthy(overrides) THEN Update(result, overrides.value)
                       ELSE result)

\* what presets.yaml may define under a name
UserPresetValues ==
    {EmptyDict,
     [description |-> "Mine"],
     [quadrants |-> <<<<IntKey(3), [source |-> INPUT]>>,
                      <<StrKey(<<"4">>), [source |-> "/in/notes.pdf",
                                          page |-> <<"1">>, rotation |-> 90]>>>>],
     [description |-> "Label in Q2",
      quadrants |-> <<<<IntKey(2), [source |-> INPUT, page |-> <<"-", "1">>]>>>>]}

UserPresetNames == {"standard", "custom"}

UserPresetFiles == UNION {[S -> UserPresetValues] : S \in SUBSET UserPresetNames}

PresetNames == DOMAIN BUILTIN_PRESETS \cup UserPresetNames \cup {"missing"}

InputFiles == {"/in/label.pdf", "/in/other.pdf"}

OverrideEntries ==
    {[source |-> "/in/manual.pdf", page |-> <<"2">>, rotation |-> 180],
     [source |-> INPUT, page |-> LAST, rotation |-> 0]}

OverrideMappings ==
    {Nothing} \cup {Some(o) : o \in UNION {[S -> OverrideEntries] : S \in SUBSET (1..4)}}

PresetInit ==
    /\ geo = GeoIdle
    /\ engine = EngineIdle
    /\ call = CallIdle
    /\ disk = DiskIdle
    /\ seen = {}
    /\ page = PageIdle
    /\ preset \in [pc : {"in"}, user_presets : UserPresetFiles,
                   preset_name : PresetNames, input_file : InputFiles,
                   overrides : OverrideMappings]
    /\ cli = CliIdle

ResolvePreset ==
    /\ preset.pc = "in"
    /\ preset' = [preset EXCEPT !.pc = "out"]
                 @@ [result |-> resolve_preset(preset.user_presets, preset.preset_name,
                                               preset.input_file, preset.overrides)]
    /\ UNCHANGED <<geo, engine, call, disk, seen, page, cli>>

\* get_preset(preset_name) on the same presets
GetPreset ==
    /\ preset.pc = "in"
    /\ preset' = [preset EXCEPT !.pc = "got"]
                 @@ [result |-> get_preset(preset.user_presets, preset.preset_name)]
    /\ UNCHANGED <<geo, engine, call, disk, seen, page, cli>>

\* list_presets() on the same presets
ListPresets ==
    /\ preset.pc = "in"
    /\ preset' = [preset EXCEPT !.pc = "listed"]
                 @@ [result |-> list_presets(preset.user_presets)]
    /\ UNCHANGED <<geo, engine, call, disk, seen, page, cli>>

PresetNext == ResolvePreset \/ GetPreset \/ ListPresets

SpecPreset == PresetInit /\ [][PresetNext]_vars

\* the preset defined under the name resolve_preset was given: the user's if
\* presets.yaml defines the name, else the built-in one
PresetExists ==
    preset.preset_name \in DOMAIN preset.user_presets \cup DOMAIN BUILTIN_PRESETS
P ==
    IF preset.preset_name \in DOMAIN preset.user_presets
    THEN preset.user_presets[preset.preset_name]
    ELSE BUILTIN_PRESETS[preset.preset_name]
PQuadrants == Get(P, "quadrants", <<>>)
PKeys == {int_of_key(PQuadrants[i][1]) : i \in 1..Len(PQuadrants)}
PEntry(k) ==
    PQuadrants[CHOOSE i \in 1..Len(PQuadrants) : int_of_key(PQuadrants[i][1]) = k][2]
\* the override mapping, None read as empty
O == IF preset.overrides.none THEN EmptyDict ELSE preset.overrides.value

\* a preset's entry with "{input}" replaced and page and rotation defaulted
Resolved(entry) ==
    [source |-> IF entry.source = "{input}" THEN preset.input_file ELSE entry.source,
     page |-> IF "page" \in DOMAIN entry THEN entry.page ELSE LAST,
     rotation |-> IF "rotation" \in DOMAIN entry THEN entry.rotation ELSE 0]

OverridesReplaceWholeEntries ==
    /\ preset.result.kind = "mapping"
    /\ DOMAIN preset.result.value = PKeys \cup DOMAIN O
    /\ \A k \in DOMAIN O : preset.result.value[k] = O[k]
    /\ \A k \in PKeys \ DOMAIN O :
         /\ preset.result.value[k] = Resolved(PEntry(k))
         /\ preset.result.value[k] =
              resolve_preset(preset.user_presets, preset.preset_name,
                             preset.input_file, Nothing).value[k]

\* C10: for every existing preset P, input file and override mapping O,
\* resolve_preset returns a mapping on keys(P.quadrants) \cup keys(O) that holds
\* O's entry for each quadrant of O and, for each other quadrant of P, P's entry
\* with "{input}" replaced by the input file and page and rotation defaulted to
\* "last" and 0, as resolve_preset returns it without overrides.
C10_OverridesReplaceWholeEntries ==
    (preset.pc = "out" /\ PresetExists) => OverridesReplaceWholeEntries


\* C13: resolve_preset fails with "Preset not found" exactly when the name is
\* defined neither in the user presets nor in the built-in presets.
C13_NotFoundIffUndefined ==
    preset.pc = "out" =>
        (preset.result = Raised("ValueError", "Preset not found") <=> ~PresetExists)


\* the name is defined both in presets.yaml and among the built-in presets
Shadowed ==
    preset.preset_name \in DOMAIN preset.user_presets \cap DOMAIN BUILTIN_PRESETS

\* the description list_presets is to show for a name: that of the user's
\* preset if presets.yaml defines the name ("Custom preset" if it has none),
\* else that of the built-in preset
ShownDescription(name) ==
    IF name \in DOMAIN preset.user_presets
    THEN IF "description" \in DOMAIN preset.user_presets[name]
         THEN preset.user_presets[name].description
         ELSE "Custom preset"
    ELSE BUILTIN_PRESETS[name].description

\* C17: for a name defined both by the user and built in, get_preset returns
\* the user's definition, and resolve_preset resolves the user's definition
\* alone: its mapping has the user's quadrants and the overrides and none of
\* the built-in preset's (an empty user definition makes it fail with
\* "Preset not found", never fall back to the built-in one).  list_presets
\* lists every user and built-in name once, each with the description of the
\* preset get_preset returns for it.
C17_UserPresetWins ==
    /\ (preset.pc = "got" /\ Shadowed) =>
           preset.result = Some(preset.user_presets[preset.preset_name])
    /\ (preset.pc = "out" /\ Shadowed) =>
           IF preset.user_presets[preset.preset_name] = EmptyDict
           THEN preset.result = Raised("ValueError", "Preset not found")
           ELSE LET quads == Get(preset.user_presets[preset.preset_name],
                                 "quadrants", <<>>)
                    keys == {int_of_key(quads[i][1]) : i \in 1..Len(quads)}
                IN /\ preset.result.kind = "mapping"
                   /\ DOMAIN preset.result.value = keys \cup DOMAIN O
                   /\ \A i \in 1..Len(quads) :
                        int_of_key(quads[i][1]) \notin DOMAIN O =>
                            preset.result.value[int_of_key(quads[i][1])] =
                                Resolved(quads[i][2])
    /\ preset.pc = "listed" =>
           /\ DOMAIN preset.result = DOMAIN preset.user_presets \cup DOMAIN BUILTIN_PRESETS
           /\ \A name \in DOMAIN preset.result :
                preset.result[name] = ShownDescription(name)

\* the user's "standard" holds Q2 alone: resolved without overrides, the
\* mapping has Q2 and neither Q1 nor Q3 of the built-in "standard"
C17_Witness ==
    /\ preset.pc = "out"
    /\ preset.preset_name = "standard"
    /\ Shadowed
    /\ preset.overrides = Nothing
    /\ preset.result.kind = "mapping"
    /\ DOMAIN preset.result.value = {2}
    /\ preset.result.value[2].source = preset.input_file


(***************************************************************************)
(* cli.py: the generate command.  An option not given is Nothing.  A       *)
(* quadrant option is the list of the fields its value has between the     *)
(* colons: the file, then the page and the rotation as typed.  Whether a   *)
(* file exists, and what a PDF holds, is the file system's answer at the   *)
(* moment it is asked.                                                     *)
(***************************************************************************)
\* the files named on the command line
CliFiles == {"label.pdf", "/in/photo.png", "notes.txt"}

\* Path(file).is_absolute() and Path(file).name
IsAbsolute(file) == file = "/in/photo.png"
PathName(file) == IF file = "/in/photo.png" THEN "photo.png" ELSE file

\* DEFAULT_DOWNLOADS / name and Path(file).resolve() of a relative file
InDownloads(name) == "~/Downloads/" \o name
InCwd(file) == "/cwd/" \o file

Path(path) == [kind |-> "path", path |-> path]

\* resolve_file_path: an absolute path that exists, else the file of that name
\* in Downloads, else (a relative path) the file under the current directory
resolve_file_path(file, exists, in_downloads) ==
    IF IsAbsolute(file)
    THEN IF exists THEN Path(file)
         ELSE IF in_downloads THEN Path(InDownloads(PathName(file)))
         ELSE Raised("FileNotFoundError", "File not found")
    ELSE IF in_downloads THEN Path(InDownloads(file))
         ELSE IF exists THEN Path(InCwd(file))
         ELSE Raised("FileNotFoundError", "File not found")

\* parse_input_spec, on the fields of spec.split(":")
parse_input_spec(parts) ==
    IF Len(parts) > 2 /\ ~int(parts[3]).ok
    THEN Raised("ValueError", "invalid literal for int()")
    ELSE [kind |-> "spec",
          file |-> parts[1],
          page |-> IF Len(parts) > 1 THEN parts[2] ELSE LAST,
          rotation |-> IF Len(parts) > 2 THEN int(parts[3]).value ELSE 0]

\* file_path.suffix.lower() of the paths of the model
Suffix(path) ==
    IF path \in {InDownloads("label.pdf"), InCwd("label.pdf"), "/in/notes.pdf"}
    THEN ".pdf"
    ELSE IF path \in {"/in/photo.png", InDownloads("photo.png")} THEN ".png"
    ELSE ".txt"

\* the image load_input returns
LoadedImage == [w |-> 4, h |-> 3]

\* InputHandler.load_image: the file is missing, or is no image, or is loaded
load_image(exists, valid) ==
    IF ~exists THEN Raised("FileNotFoundError", "Image file not found")
    ELSE IF ~valid THEN Raised("ValueError", "Failed to load image")
    ELSE [kind |-> "image", image |-> LoadedImage]

\* InputHandler.load_input
load_input(file_path, page_spec, exists, count, valid) ==
    IF Suffix(file_path) = ".pdf"
    THEN LET loaded == load_pdf_page(exists, count, page_spec)
         IN IF loaded.kind = "page" THEN [kind |-> "image", image |-> LoadedImage]
            ELSE loaded
    ELSE IF Suffix(file_path) = ".png" THEN load_image(exists, valid)
    ELSE Raised("ValueError", "Unsupported file format")

\* lines 289-297 and 304-312: the mapping made of --q1..--q4, or the first
\* exception of parse_input_spec or resolve_file_path
RECURSIVE manual_quadrants(_, _, _, _)
manual_quadrants(q, k, exists, in_downloads) ==
    IF k = 0 THEN Mapping(EmptyDict)
    ELSE LET before == manual_quadrants(q, k - 1, exists, in_downloads)
         IN IF before.kind = "error" \/ q[k].none THEN before
            ELSE LET parsed == parse_input_spec(q[k].value)
                 IN IF parsed.kind = "error" THEN parsed
                    ELSE LET file_path == resolve_file_path(parsed.file,
                                              parsed.file \in exists,
                                              parsed.file \in in_downloads)
                         IN IF file_path.kind = "error" THEN file_path
                            ELSE Mapping(Update(before.value,
                                     k :> [source |-> file_path.path,
                                           page |-> parsed.page,
                                           rotation |-> parsed.rotation]))

\* the values of --q1..--q4
QSpecs ==
    {Nothing,
     Some(<<"/in/photo.png">>),
     Some(<<"label.pdf", <<"-", "1">>, <<"9", "0">>>>),
     Some(<<"notes.txt", LAST, <<"x">>>>)}

\* what presets.yaml defines under "custom", if it defines it
CliPresetValues ==
    {EmptyDict,
     [description |-> "Mine"],
     [quadrants |-> <<<<IntKey(5), [source |-> INPUT]>>>>],
     [quadrants |-> <<<<StrKey(<<"1">>), [source |-> INPUT, page |-> <<"2">>]>>,
                      <<IntKey(5), [source |-> "/in/notes.pdf", rotation |-> 90]>>>>]}

CliPresetFiles == {EmptyDict} \cup {"custom" :> value : value \in CliPresetValues}

\* the values of --preset
CliPresetNames == {Nothing, Some("custom"), Some("notes-q4"), Some("missing")}

CliInit ==
    /\ geo = GeoIdle
    /\ engine = EngineIdle
    /\ call = CallIdle
    /\ disk = DiskIdle
    /\ seen = {}
    /\ page = PageIdle
    /\ preset = PresetIdle
    /\ cli \in [pc : {"start"}, interactive : BOOLEAN, preset : CliPresetNames,
                input_file : {Nothing, Some("label.pdf")},
                q : [1..4 -> QSpecs], user_presets : CliPresetFiles,
                quadrants : {EmptyDict}, quad_configs : {EmptyDict},
                loads : {0}, invoked : {FALSE}]

\* the command is over: raise typer.Exit(status), or the return of line 361
CliExit(status) == cli' = [cli EXCEPT !.pc = "exit"] @@ [status |-> status]

\* lines 248-259: --interactive without --preset
CliInteractiveWithoutPreset ==
    /\ cli.pc = "start"
    /\ cli.interactive /\ cli.preset.none
    /\ CliExit(1)
    /\ UNCHANGED <<geo, engine, call, disk, seen, page, preset>>

\* lines 262-300: --preset; the input file is prompted for in interactive
\* mode, the overrides are made of --q1..--q4 and the preset is resolved
CliPreset ==
    /\ cli.pc = "start"
    /\ ~cli.preset.none
    /\ \E answer \in {Nothing, Some("label.pdf")},
          exists \in SUBSET CliFiles, in_downloads \in SUBSET CliFiles :
         LET input_file == IF cli.interactive /\ cli.input_file.none THEN answer
                           ELSE cli.input_file
         IN IF input_file.none THEN CliExit(1)
            ELSE LET input_path == resolve_file_path(input_file.value,
                                       input_file.value \in exists,
                                       input_file.value \in in_downloads)
                     overrides == manual_quadrants(cli.q, 4, exists, in_downloads)
                 IN IF input_path.kind = "error" \/ overrides.kind = "error"
                    THEN CliExit(1)
                    ELSE LET resolved == resolve_preset(cli.user_presets,
                                             cli.preset.value, input_path.path,
                                             Some(overrides.value))
                         IN IF resolved.kind = "error" THEN CliExit(1)
                            ELSE cli' = [cli EXCEPT !.pc = "check",
                                                    !.input_file = input_file,
                                                    !.quadrants = resolved.value]
    /\ UNCHANGED <<geo, engine, call, disk, seen, page, preset>>

\* lines 302-312: no --preset; the mapping is made of --q1..--q4
CliManual ==
    /\ cli.pc = "start"
    /\ cli.preset.none /\ ~cli.interactive
    /\ \E exists \in SUBSET CliFiles, in_downloads \in SUBSET CliFiles :
         LET made == manual_quadrants(cli.q, 4, exists, in_downloads)
         IN IF made.kind = "error" THEN CliExit(1)
            ELSE cli' = [cli EXCEPT !.pc = "check", !.quadrants = made.value]
    /\ UNCHANGED <<geo, engine, call, disk, seen, page, preset>>

\* lines 314-319: `if not quadrants`
CliNoQuadrants ==
    /\ cli.pc = "check"
    /\ cli.quadrants = EmptyDict
    /\ CliExit(1)
    /\ UNCHANGED <<geo, engine, call, disk, seen, page, preset>>

\* lines 321-333: the output path is settled and the loading starts
CliStartLoading ==
    /\ cli.pc = "check"
    /\ cli.quadrants # EmptyDict
    /\ cli' = [cli EXCEPT !.pc = "loading"]
    /\ UNCHANGED <<geo, engine, call, disk, seen, page, preset>>

\* lines 335-347: one pass of the loop over quadrants.items(), on a quadrant
\* not yet loaded; an exception of load_input ends the command
CliLoadInput ==
    /\ cli.pc = "loading"
    /\ \E quad_num \in DOMAIN cli.quadrants \ DOMAIN cli.quad_configs :
       \E exists \in BOOLEAN, count \in 0..MaxPages, valid \in BOOLEAN :
         LET config == cli.quadrants[quad_num]
             loaded == load_input(config.source, config.page, exists, count, valid)
         IN IF loaded.kind = "error"
            THEN cli' = [cli EXCEPT !.pc = "exit", !.loads = @ + 1] @@ [status |-> 1]
            ELSE cli' = [cli EXCEPT
                     !.loads = @ + 1,
                     !.quad_configs = Update(@, quad_num :>
                         QuadrantConfig(loaded.image, config.rotation))]
    /\ UNCHANGED <<geo, engine, call, disk, seen, page, preset>>

\* lines 351-359: every quadrant is loaded; generate_pdf is called with
\* quad_configs.get(1) .. quad_configs.get(4)
CliGeneratePdf ==
    /\ cli.pc = "loading"
    /\ DOMAIN cli.quad_configs = DOMAIN cli.quadrants
    /\ cli' = [cli EXCEPT !.pc = "generate", !.invoked = TRUE]
              @@ [args |-> [k \in 1..4 |-> Get(cli.quad_configs, k, NoConfig)]]
    /\ UNCHANGED <<geo, engine, call, disk, seen, page, preset>>

\* line 361: generate_pdf returned
CliCreated ==
    /\ cli.pc = "generate"
    /\ CliExit(0)
    /\ UNCHANGED <<geo, engine, call, disk, seen, page, preset>>

\* lines 363-371: generate_pdf raised
CliGenerateRaises ==
    /\ cli.pc = "generate"
    /\ CliExit(1)
    /\ UNCHANGED <<geo, engine, call, disk, seen, page, preset>>

CliNext ==
    \/ CliInteractiveWithoutPreset
    \/ CliPreset
    \/ CliManual
    \/ CliNoQuadrants
    \/ CliStartLoading
    \/ CliLoadInput
    \/ CliGeneratePdf
    \/ CliCreated
    \/ CliGenerateRaises

SpecCli == CliInit /\ [][CliNext]_vars

\* C16: the generate command never calls generate_pdf with all four quadrants
\* absent.  With an empty quadrant mapping it goes no further than `if not quadrants`:
\* it loads no input and calls nothing, and exits with status 1; it calls
\* generate_pdf only when every quadrant of the mapping was loaded; and it
\* exits with status 0 only after the call.
C16_CliNeverRendersBlank ==
    /\ cli.pc = "generate" => \E k \in 1..4 : Present(cli.args[k])
    /\ cli.pc \in {"loading", "generate"} => cli.quadrants # EmptyDict
    /\ (cli.pc # "idle" /\ cli.quadrants = EmptyDict) =>
           /\ cli.loads = 0 /\ ~cli.invoked
           /\ cli.pc = "exit" => cli.status = 1
    /\ (cli.pc # "idle" /\ cli.invoked) => DOMAIN cli.quad_configs = DOMAIN cli.quadrants
    /\ (cli.pc = "exit" /\ ~cli.invoked) => cli.status = 1

=============================================================================
